---- MODULE Spec2Model ----
(***************************************************************************)
(* Model of events/janus_sampleevh.c: the sample event handler plugin.     *)
(*                                                                         *)
(* Threads: one host control thread (init / destroy, never concurrent      *)
(* with itself), the host's notifying threads (incoming_event), and the    *)
(* handler threads started by init.  Every access to a global that         *)
(* another thread can see is a step of its own.                            *)
(***************************************************************************)
EXTENDS Integers, Sequences, FiniteSets, TLC

(* ------------------------------ bounds --------------------------------- *)
\* init calls made by the host in one run (each may create a queue/thread)
MaxInits == 2
\* incoming_event calls made by the host in one run (one fresh event each)
MaxEvents == 2
\* host threads that call incoming_event
NumProducers == 2

Producers == 1..NumProducers
Events    == 1..MaxEvents
QueueIds  == 1..MaxInits
ThreadIds == 1..MaxInits

\* &exit_event, the sentinel (line 78); never an event id
EXIT == -1
\* a NULL pointer (events, handler_thread)
NULL == 0

(* ------------------------- configuration values ------------------------ *)
\* A string is a sequence of one-character strings; a missing item is NoItem.
NoItem == <<"<missing>">>

S_http  == <<"h","t","t","p",":","/","/","x">>
S_https == <<"h","t","t","p","s",":","/","/","x">>
S_ftp   == <<"f","t","p",":","/","/","x">>
S_xhttp == <<"x","h","t","t","p",":","/","/">>
S_HTTP  == <<"H","T","T","P",":","/","/","x">>
S_htt   == <<"h","t","t">>
S_empty == <<>>

BackendValues == {NoItem, S_empty, S_ftp, S_xhttp, S_HTTP, S_htt, S_http, S_https}

\* strstr(haystack, needle): index (from 1) of the first occurrence, 0 for NULL
StrStr(h, n) ==
  LET hits == {i \in 1..(Len(h) + 1) :
                 /\ i + Len(n) - 1 <= Len(h)
                 /\ SubSeq(h, i, i + Len(n) - 1) = n}
  IN IF hits = {} THEN 0 ELSE CHOOSE i \in hits : \A j \in hits : i <= j

\* line 119 with strstr(...) != NULL: "http" anywhere in the value
BackendOkAnywhere(v) ==
  /\ v # NoItem
  /\ StrStr(v, <<"h","t","t","p">>) # 0

\* line 119: item && item->value && strstr(item->value, "http") == item->value
BackendOk(v) ==
  /\ v # NoItem
  /\ StrStr(v, <<"h","t","t","p">>) = 1

\* janus_is_true (utils.c, not in src/): the truthy values of a config item
janus_is_true(v) == v \in {"yes", "true", "1"}

\* line 114: item && item->value && janus_is_true(item->value)
EnabledOk(v) == v # "<missing>" /\ janus_is_true(v)

(* ----------------------------- event kinds ----------------------------- *)
Kinds == {"session", "handle", "jsep", "webrtc", "media", "plugin", "transport"}

\* the event types of eventhandler.h that the plugin names (lines 143-156)
JANUS_EVENT_TYPE_SESSION   == "session"
JANUS_EVENT_TYPE_HANDLE    == "handle"
JANUS_EVENT_TYPE_JSEP      == "jsep"
JANUS_EVENT_TYPE_WEBRTC    == "webrtc"
JANUS_EVENT_TYPE_MEDIA     == "media"
JANUS_EVENT_TYPE_PLUGIN    == "plugin"
JANUS_EVENT_TYPE_TRANSPORT == "transport"

UpperCase == <<"A","B","C","D","E","F","G","H","I","J","K","L","M",
               "N","O","P","Q","R","S","T","U","V","W","X","Y","Z">>
LowerCase == <<"a","b","c","d","e","f","g","h","i","j","k","l","m",
               "n","o","p","q","r","s","t","u","v","w","x","y","z">>

tolower(c) ==
  IF \E i \in DOMAIN UpperCase : UpperCase[i] = c
  THEN LowerCase[CHOOSE i \in DOMAIN UpperCase : UpperCase[i] = c]
  ELSE c

\* !strcasecmp(a, b): equal ignoring the case of letters
strcaseeq(a, b) ==
  /\ Len(a) = Len(b)
  /\ \A i \in DOMAIN a : tolower(a[i]) = tolower(b[i])

isspace(c) == c \in {" ", "\t", "\n"}

\* g_strsplit(s, ",", -1): the pieces between commas; no piece for ""
RECURSIVE SplitFrom(_, _, _)
SplitFrom(s, i, cur) ==
  IF i > Len(s) THEN <<cur>>
  ELSE IF s[i] = "," THEN <<cur>> \o SplitFrom(s, i + 1, <<>>)
  ELSE SplitFrom(s, i + 1, Append(cur, s[i]))

g_strsplit(s) == IF s = <<>> THEN <<>> ELSE SplitFrom(s, 1, <<>>)

\* lines 140-141: while(isspace(*index)) index++
RECURSIVE SkipSpace(_)
SkipSpace(t) ==
  IF t # <<>> /\ isspace(Head(t)) THEN SkipSpace(Tail(t)) ELSE t

W_sessions   == <<"s","e","s","s","i","o","n","s">>
W_handles    == <<"h","a","n","d","l","e","s">>
W_jsep       == <<"j","s","e","p">>
W_webrtc     == <<"w","e","b","r","t","c">>
W_media      == <<"m","e","d","i","a">>
W_plugins    == <<"p","l","u","g","i","n","s">>
W_transports == <<"t","r","a","n","s","p","o","r","t","s">>
W_none       == <<"n","o","n","e">>
W_all        == <<"a","l","l">>

\* lines 142-160: the bits one token of the list sets
TokenBits(token) ==
  LET index == SkipSpace(token) IN
  IF Len(index) = 0 THEN {}
  ELSE IF strcaseeq(index, W_sessions)   THEN {JANUS_EVENT_TYPE_SESSION}
  ELSE IF strcaseeq(index, W_handles)    THEN {JANUS_EVENT_TYPE_HANDLE}
  ELSE IF strcaseeq(index, W_jsep)       THEN {JANUS_EVENT_TYPE_JSEP}
  ELSE IF strcaseeq(index, W_webrtc)     THEN {JANUS_EVENT_TYPE_WEBRTC}
  ELSE IF strcaseeq(index, W_media)      THEN {JANUS_EVENT_TYPE_MEDIA}
  ELSE IF strcaseeq(index, W_plugins)    THEN {JANUS_EVENT_TYPE_PLUGIN}
  ELSE IF strcaseeq(index, W_transports) THEN {JANUS_EVENT_TYPE_TRANSPORT}
  ELSE {}

\* a parser that assigns the mask for every token where line 144 ORs into it
RECURSIVE SubscribeLast(_, _)
SubscribeLast(mask, subscribe) ==
  IF subscribe = <<>> THEN mask
  ELSE SubscribeLast(TokenBits(Head(subscribe)), Tail(subscribe))

\* lines 134-166: janus_flags_set for every token of the split list
RECURSIVE SubscribeList(_, _)
SubscribeList(mask, subscribe) ==
  IF subscribe = <<>> THEN mask
  ELSE SubscribeList(mask \cup TokenBits(Head(subscribe)), Tail(subscribe))

\* lines 124-168: the mask after the events item is handled
MaskAfter(mask, ev) ==
  IF ev = NoItem THEN mask
  ELSE IF strcaseeq(ev, W_none) THEN {}
  ELSE IF strcaseeq(ev, W_all) THEN mask \cup Kinds
  ELSE SubscribeList(mask, g_strsplit(ev))

\* general.events values the host's configurations carry
EventsValues == {NoItem, W_all, W_sessions}

(* ------------------- general.events values under parse ----------------- *)
\* tokens per list
MaxTokens == 3

W_foo == <<"f","o","o">>
SP    == <<" ">>

\* the tokens a list is made of: plain, capitalised, with a space before,
\* with a space on both sides, unknown, and empty
Toks == {W_sessions, <<"S">> \o Tail(W_sessions), W_handles, SP \o W_handles,
         SP \o W_handles \o SP, SP \o W_foo, <<>>}

TokenLists == UNION {[1..n -> Toks] : n \in 1..MaxTokens}

\* the value of the item: the tokens joined by commas
RECURSIVE Join(_)
Join(ts) ==
  IF Len(ts) = 1 THEN ts[1] ELSE ts[1] \o <<",">> \o Join(Tail(ts))

\* no tokens stands for a configuration without the item
EventsValueOf(ts) == IF ts = <<>> THEN NoItem ELSE Join(ts)

\* the value takes the list branch (line 132), not `none` or `all`
IsListValue(ts) ==
  /\ ts # <<>>
  /\ ~strcaseeq(Join(ts), W_none)
  /\ ~strcaseeq(Join(ts), W_all)

\* A configuration as init sees it: path given?, file parsed?, the three items
Configs ==
  [path : {TRUE}, parsed : {TRUE}, enabled : {"yes"},
   backend : BackendValues, events : {NoItem}]
  \cup
  [path : {TRUE}, parsed : {TRUE}, enabled : {"<missing>", "no"},
   backend : {S_http}, events : {NoItem}]
  \cup
  [path : {TRUE}, parsed : {TRUE}, enabled : {"yes"},
   backend : {S_http}, events : EventsValues]
  \cup
  [path : BOOLEAN, parsed : BOOLEAN, enabled : {"yes"},
   backend : {S_http}, events : {NoItem}]

(* ------------------------------- state --------------------------------- *)
VARIABLES
  initialized,     \* line 72
  stopping,        \* line 72
  handler_thread,  \* line 73: a thread id or NULL
  events,          \* line 77: a queue id or NULL (may dangle after unref)
  backend,         \* line 86: "null", "live" or "freed" (dangling)
  events_mask,     \* janus_sampleevh.events_mask (line 61)
  qstate,          \* per queue: "unborn", "live", "freed"
  queue,           \* per queue: its entries, head first
  cpc,             \* control thread: where init / destroy stands
  cret,            \* outcome of the control thread's last call
  ipc,             \* per producer: where incoming_event stands
  iev,             \* per producer: the event of the call in progress
  iq,              \* per producer: the queue pointer loaded for the push
  wpc,             \* per handler thread: where the loop stands
  wq,              \* per handler thread: the queue pointer loaded for the pop
  wev,             \* per handler thread: the event being handled
  crashed,         \* the process was killed by undefined behaviour
  ninit,           \* init calls so far
  nqueue,          \* queues created so far
  nthread,         \* handler threads created so far
  nevent,          \* incoming_event calls so far
  acq,             \* per event: json_incref calls by the plugin
  rel,             \* per event: json_decref calls by the plugin
  exitDecrefs,     \* json_decref calls on &exit_event
  exitPushes,      \* per queue: pushes of &exit_event
  backendCopies,   \* g_strdup'ed backend strings not yet freed
  pushed,          \* events in the order they entered a live queue
  posted,          \* events in the order curl_easy_perform was called
  res,             \* per event: "none", "noinit", "inflight", "ok", "err"
  path,            \* per event: "none", "call", "drop", "enqueue"
  win,             \* per event: the call began inside the shutdown window
  sawStop,         \* per event: the call read stopping as set
  shut,            \* destroy has set stopping; no later init has set initialized
  early,           \* events pushed before the last destroy call that began
  m_ts,            \* the tokens of the general.events value under parse
  m_pc,            \* mask parser: "off", "start" or "done"
  popShut,         \* events popped while a flag said shut down
  cfg_events,      \* the general.events value of the last init call
  latePosts        \* POSTs begun since destroy last set stopping

vars == <<initialized, stopping, handler_thread, events, backend, events_mask,
          qstate, queue, cpc, cret, ipc, iev, iq, wpc, wq, wev, crashed,
          ninit, nqueue, nthread, nevent, acq, rel, exitDecrefs, exitPushes,
          backendCopies, pushed, posted, res, path, win, sawStop, shut, early,
          m_ts, m_pc, popShut, cfg_events, latePosts>>

globals  == <<initialized, stopping, handler_thread, events, backend, events_mask>>
qvars    == <<qstate, queue, exitPushes, nqueue>>
cvars    == <<cpc, cret, ninit>>
ivars    == <<ipc, iev, iq, nevent>>
wvars    == <<wpc, wq, wev, nthread>>
refvars  == <<acq, rel, exitDecrefs>>
histvars == <<pushed, posted, res, path, win, sawStop, shut, early>>
mvars    == <<m_ts, m_pc>>

ProgramInit ==
  /\ initialized = 0
  /\ stopping = 0
  /\ handler_thread = NULL
  /\ events = NULL
  /\ backend = "null"
  /\ events_mask = {}
  /\ qstate = [q \in QueueIds |-> "unborn"]
  /\ queue = [q \in QueueIds |-> <<>>]
  /\ cpc = "idle"
  /\ cret = "none"
  /\ ipc = [p \in Producers |-> "idle"]
  /\ iev = [p \in Producers |-> 0]
  /\ iq = [p \in Producers |-> NULL]
  /\ wpc = [w \in ThreadIds |-> "unborn"]
  /\ wq = [w \in ThreadIds |-> NULL]
  /\ wev = [w \in ThreadIds |-> 0]
  /\ crashed = FALSE
  /\ ninit = 0
  /\ nqueue = 0
  /\ nthread = 0
  /\ nevent = 0
  /\ acq = [e \in Events |-> 0]
  /\ rel = [e \in Events |-> 0]
  /\ exitDecrefs = 0
  /\ exitPushes = [q \in QueueIds |-> 0]
  /\ backendCopies = 0
  /\ pushed = <<>>
  /\ posted = <<>>
  /\ res = [e \in Events |-> "none"]
  /\ path = [e \in Events |-> "none"]
  /\ win = [e \in Events |-> FALSE]
  /\ sawStop = [e \in Events |-> FALSE]
  /\ shut = FALSE
  /\ early = {}
  /\ popShut = {}
  /\ cfg_events = NoItem
  /\ latePosts = 0

\* the state after the plugin is loaded; no events value is under parse
Init ==
  /\ ProgramInit
  /\ m_ts = <<>>
  /\ m_pc = "off"


(* ------------------------------ helpers -------------------------------- *)
Range(s) == {s[i] : i \in DOMAIN s}
Count(s, x) == Cardinality({i \in DOMAIN s : s[i] = x})

\* lines 79-83: the number of json_decref calls the destroy notify makes
janus_sampleevh_event_free(event) ==
  IF event = NULL \/ event = EXIT THEN 0 ELSE 1

\* a push that puts the entry at the head of the queue, where it pops first
PushedAtHead(q, x) == [queue EXCEPT ![q] = <<x>> \o @]

\* g_async_queue_push on a live queue: the entry goes to the tail
Pushed(q, x) == [queue EXCEPT ![q] = Append(@, x)]

(* ---------------------- control thread: init (92-201) ------------------ *)
\* lines 93-181: the checks, the configuration, backend and events_mask
InitCall(c) ==
  /\ ~crashed
  /\ UNCHANGED <<mvars, popShut, latePosts>>
  /\ cfg_events' = c.events
  /\ cpc = "idle"
  /\ ninit < MaxInits
  /\ ninit' = ninit + 1
  /\ IF stopping = 1 THEN
       /\ cret' = "init_fail_stopping"
       /\ UNCHANGED <<cpc, backend, backendCopies, events_mask>>
     ELSE IF ~c.path THEN
       /\ cret' = "init_fail_path"
       /\ UNCHANGED <<cpc, backend, backendCopies, events_mask>>
     ELSE IF ~c.parsed THEN
       /\ cret' = "init_fail_noconfig"
       /\ UNCHANGED <<cpc, backend, backendCopies, events_mask>>
     ELSE IF ~EnabledOk(c.enabled) THEN
       /\ cret' = "init_fail_disabled"
       /\ UNCHANGED <<cpc, backend, backendCopies, events_mask>>
     ELSE IF ~BackendOk(c.backend) THEN
       /\ cret' = "init_fail_backend"
       /\ UNCHANGED <<cpc, backend, backendCopies, events_mask>>
     ELSE
       /\ backend' = "live"
       /\ backendCopies' = backendCopies + 1
       /\ events_mask' = MaskAfter(events_mask, c.events)
       /\ cret' = "running"
       /\ cpc' = "init_queue"
  /\ UNCHANGED <<initialized, stopping, handler_thread, events>>
  /\ UNCHANGED <<qvars, ivars, wvars, refvars, histvars, crashed>>

\* lines 184-187: events = g_async_queue_new_full(event_free)
InitQueue ==
  /\ ~crashed
  /\ UNCHANGED <<mvars, popShut, cfg_events, latePosts>>
  /\ cpc = "init_queue"
  /\ nqueue' = nqueue + 1
  /\ qstate' = [qstate EXCEPT ![nqueue + 1] = "live"]
  /\ events' = nqueue + 1
  /\ cpc' = "init_set"
  /\ UNCHANGED <<initialized, stopping, handler_thread, backend, events_mask>>
  /\ UNCHANGED <<queue, exitPushes, cret, ninit, backendCopies>>
  /\ UNCHANGED <<ivars, wvars, refvars, histvars, crashed>>

\* line 189: g_atomic_int_set(&initialized, 1)
InitSet ==
  /\ ~crashed
  /\ UNCHANGED <<mvars, popShut, cfg_events, latePosts>>
  /\ cpc = "init_set"
  /\ initialized' = 1
  /\ cpc' = "init_thread"
  /\ shut' = FALSE
  /\ UNCHANGED <<stopping, handler_thread, events, backend, events_mask>>
  /\ UNCHANGED <<qvars, cret, ninit, backendCopies>>
  /\ UNCHANGED <<ivars, wvars, refvars, crashed>>
  /\ UNCHANGED <<pushed, posted, res, path, win, sawStop, early>>

\* lines 193, 199-200: g_thread_try_new succeeds; init returns 0
InitThreadOk ==
  /\ ~crashed
  /\ UNCHANGED <<mvars, popShut, cfg_events, latePosts>>
  /\ cpc = "init_thread"
  /\ nthread' = nthread + 1
  /\ wpc' = [wpc EXCEPT ![nthread + 1] = "check_init"]
  /\ handler_thread' = nthread + 1
  /\ cret' = "init_ok"
  /\ cpc' = "idle"
  /\ UNCHANGED <<initialized, stopping, events, backend, events_mask>>
  /\ UNCHANGED <<qvars, ninit, backendCopies, wq, wev>>
  /\ UNCHANGED <<ivars, refvars, crashed>>
  /\ UNCHANGED histvars

\* lines 193-194: g_thread_try_new fails: it returns NULL and sets error
InitThreadFail ==
  /\ ~crashed
  /\ UNCHANGED <<mvars, popShut, cfg_events, latePosts>>
  /\ cpc = "init_thread"
  /\ handler_thread' = NULL
  /\ cpc' = "init_rollback"
  /\ UNCHANGED <<initialized, stopping, events, backend, events_mask>>
  /\ UNCHANGED <<qvars, cret, ninit, backendCopies>>
  /\ UNCHANGED <<ivars, wvars, refvars, histvars, crashed>>

\* lines 195-197: g_atomic_int_set(&initialized, 0); return -1
InitRollback ==
  /\ ~crashed
  /\ UNCHANGED <<mvars, popShut, cfg_events, latePosts>>
  /\ cpc = "init_rollback"
  /\ initialized' = 0
  /\ cret' = "init_fail_thread"
  /\ cpc' = "idle"
  /\ UNCHANGED <<stopping, handler_thread, events, backend, events_mask>>
  /\ UNCHANGED <<qvars, ninit, backendCopies>>
  /\ UNCHANGED <<ivars, wvars, refvars, histvars, crashed>>

(* -------------------- control thread: destroy (203-222) ---------------- *)
\* a destroy without the test of line 204
DestroyCallNoTest ==
  /\ ~crashed
  /\ UNCHANGED <<mvars, popShut, cfg_events>>
  /\ cpc = "idle"
  /\ IF FALSE THEN
       /\ cret' = "destroy_noop"
       /\ UNCHANGED <<stopping, cpc, shut, early, latePosts>>
     ELSE
       /\ stopping' = 1
       /\ cret' = "running"
       /\ cpc' = "d_push"
       /\ shut' = TRUE
       /\ early' = Range(pushed)
       /\ latePosts' = 0
  /\ UNCHANGED <<initialized, handler_thread, events, backend, events_mask>>
  /\ UNCHANGED <<qvars, ninit, backendCopies>>
  /\ UNCHANGED <<ivars, wvars, refvars, crashed>>
  /\ UNCHANGED <<pushed, posted, res, path, win, sawStop>>

\* lines 204-206: return if not initialized, else stopping = 1
DestroyCall ==
  /\ ~crashed
  /\ UNCHANGED <<mvars, popShut, cfg_events>>
  /\ cpc = "idle"
  /\ IF initialized = 0 THEN
       /\ cret' = "destroy_noop"
       /\ UNCHANGED <<stopping, cpc, shut, early, latePosts>>
     ELSE
       /\ stopping' = 1
       /\ cret' = "running"
       /\ cpc' = "d_push"
       /\ shut' = TRUE
       /\ early' = Range(pushed)
       /\ latePosts' = 0
  /\ UNCHANGED <<initialized, handler_thread, events, backend, events_mask>>
  /\ UNCHANGED <<qvars, ninit, backendCopies>>
  /\ UNCHANGED <<ivars, wvars, refvars, crashed>>
  /\ UNCHANGED <<pushed, posted, res, path, win, sawStop>>

\* a destroy that pushes the sentinel again until the handler has exited
DestroyPushAgain ==
  /\ ~crashed
  /\ UNCHANGED <<mvars, popShut, cfg_events, latePosts>>
  /\ cpc = "d_push"
  /\ IF events # NULL /\ qstate[events] = "live" THEN
       /\ queue' = Pushed(events, EXIT)
       /\ exitPushes' = [exitPushes EXCEPT ![events] = @ + 1]
     ELSE
       UNCHANGED <<queue, exitPushes>>
  /\ cpc' = IF handler_thread # NULL /\ wpc[handler_thread] # "exited"
            THEN "d_push" ELSE "d_join"
  /\ UNCHANGED <<globals, qstate, nqueue, cret, ninit, backendCopies>>
  /\ UNCHANGED <<ivars, wvars, refvars, histvars, crashed>>

\* line 208: g_async_queue_push(events, &exit_event)
DestroyPush ==
  /\ ~crashed
  /\ UNCHANGED <<mvars, popShut, cfg_events, latePosts>>
  /\ cpc = "d_push"
  /\ IF events # NULL /\ qstate[events] = "live" THEN
       /\ queue' = Pushed(events, EXIT)
       /\ exitPushes' = [exitPushes EXCEPT ![events] = @ + 1]
     ELSE
       UNCHANGED <<queue, exitPushes>>
  /\ cpc' = "d_join"
  /\ UNCHANGED <<globals, qstate, nqueue, cret, ninit, backendCopies>>
  /\ UNCHANGED <<ivars, wvars, refvars, histvars, crashed>>

\* lines 209-212: g_thread_join(handler_thread); handler_thread = NULL
DestroyJoin ==
  /\ ~crashed
  /\ UNCHANGED <<mvars, popShut, cfg_events, latePosts>>
  /\ cpc = "d_join"
  /\ handler_thread # NULL => wpc[handler_thread] = "exited"
  /\ handler_thread' = NULL
  /\ cpc' = "d_unref"
  /\ UNCHANGED <<initialized, stopping, events, backend, events_mask>>
  /\ UNCHANGED <<qvars, cret, ninit, backendCopies>>
  /\ UNCHANGED <<ivars, wvars, refvars, histvars, crashed>>

\* line 214: g_async_queue_unref(events): the last reference; every entry
\* left goes through the destroy notify, then the queue is freed
DestroyUnref ==
  /\ ~crashed
  /\ UNCHANGED <<mvars, popShut, cfg_events, latePosts>>
  /\ cpc = "d_unref"
  /\ IF events # NULL /\ qstate[events] = "live" THEN
       LET left == queue[events] IN
       /\ rel' = [e \in Events |->
                    rel[e] + Count(left, e) * janus_sampleevh_event_free(e)]
       /\ exitDecrefs' = exitDecrefs
                           + Count(left, EXIT) * janus_sampleevh_event_free(EXIT)
       /\ queue' = [queue EXCEPT ![events] = <<>>]
       /\ qstate' = [qstate EXCEPT ![events] = "freed"]
     ELSE
       UNCHANGED <<rel, exitDecrefs, queue, qstate>>
  /\ cpc' = "d_null"
  /\ UNCHANGED <<globals, exitPushes, nqueue, cret, ninit, backendCopies, acq>>
  /\ UNCHANGED <<ivars, wvars, histvars, crashed>>

\* line 215: events = NULL
DestroyNull ==
  /\ ~crashed
  /\ UNCHANGED <<mvars, popShut, cfg_events, latePosts>>
  /\ cpc = "d_null"
  /\ events' = NULL
  /\ cpc' = "d_free"
  /\ UNCHANGED <<initialized, stopping, handler_thread, backend, events_mask>>
  /\ UNCHANGED <<qvars, cret, ninit, backendCopies>>
  /\ UNCHANGED <<ivars, wvars, refvars, histvars, crashed>>

\* a destroy that leaves the backend string allocated
DestroyKeepBackend ==
  /\ ~crashed
  /\ UNCHANGED <<mvars, popShut, cfg_events, latePosts>>
  /\ cpc = "d_free"
  /\ cpc' = "d_init"
  /\ UNCHANGED <<globals, qvars, cret, ninit, backendCopies>>
  /\ UNCHANGED <<ivars, wvars, refvars, histvars, crashed>>

\* line 217: g_free(backend); the pointer is left as it was
DestroyFree ==
  /\ ~crashed
  /\ UNCHANGED <<mvars, popShut, cfg_events, latePosts>>
  /\ cpc = "d_free"
  /\ backend' = IF backend = "live" THEN "freed" ELSE backend
  /\ backendCopies' = IF backend = "live" THEN backendCopies - 1
                      ELSE backendCopies
  /\ cpc' = "d_init"
  /\ UNCHANGED <<initialized, stopping, handler_thread, events, events_mask>>
  /\ UNCHANGED <<qvars, cret, ninit>>
  /\ UNCHANGED <<ivars, wvars, refvars, histvars, crashed>>

\* a destroy that clears `stopping` where line 219 clears `initialized`
DestroyClearStopFirst ==
  /\ ~crashed
  /\ UNCHANGED <<mvars, popShut, cfg_events, latePosts>>
  /\ cpc = "d_init"
  /\ stopping' = 0
  /\ cpc' = "d_stop"
  /\ UNCHANGED <<initialized, handler_thread, events, backend, events_mask>>
  /\ UNCHANGED <<qvars, cret, ninit, backendCopies>>
  /\ UNCHANGED <<ivars, wvars, refvars, histvars, crashed>>

\* line 219: g_atomic_int_set(&initialized, 0)
DestroyClearInit ==
  /\ ~crashed
  /\ UNCHANGED <<mvars, popShut, cfg_events, latePosts>>
  /\ cpc = "d_init"
  /\ initialized' = 0
  /\ cpc' = "d_stop"
  /\ UNCHANGED <<stopping, handler_thread, events, backend, events_mask>>
  /\ UNCHANGED <<qvars, cret, ninit, backendCopies>>
  /\ UNCHANGED <<ivars, wvars, refvars, histvars, crashed>>

\* lines 220-222: g_atomic_int_set(&stopping, 0); return
DestroyClearStop ==
  /\ ~crashed
  /\ UNCHANGED <<mvars, popShut, cfg_events, latePosts>>
  /\ cpc = "d_stop"
  /\ stopping' = 0
  /\ cret' = "destroy_done"
  /\ cpc' = "idle"
  /\ UNCHANGED <<initialized, handler_thread, events, backend, events_mask>>
  /\ UNCHANGED <<qvars, ninit, backendCopies>>
  /\ UNCHANGED <<ivars, wvars, refvars, histvars, crashed>>


(* ------------- host threads: incoming_event (253-270) ------------------ *)
\* lines 253-258, first operand of the condition, for the value `stop` the
\* load of `stopping` gives: if set, json_decref and return
IngressFirstRead(p, stop) ==
  /\ ~crashed
  /\ UNCHANGED <<mvars, popShut, cfg_events, latePosts>>
  /\ ipc[p] = "idle"
  /\ nevent < MaxEvents
  /\ LET e == nevent + 1 IN
     /\ nevent' = e
     /\ win' = [win EXCEPT ![e] = shut]
     /\ sawStop' = [sawStop EXCEPT ![e] = (stopping = 1)]
     /\ IF stop = 1 THEN
          /\ rel' = [rel EXCEPT ![e] = @ + 1]
          /\ path' = [path EXCEPT ![e] = "drop"]
          /\ UNCHANGED <<ipc, iev>>
        ELSE
          /\ ipc' = [ipc EXCEPT ![p] = "read_init"]
          /\ iev' = [iev EXCEPT ![p] = e]
          /\ path' = [path EXCEPT ![e] = "call"]
          /\ UNCHANGED rel
  /\ UNCHANGED <<globals, qvars, cvars, wvars, backendCopies, crashed>>
  /\ UNCHANGED <<iq, acq, exitDecrefs, pushed, posted, res, shut, early>>

\* incoming_event without the test of `stopping`
IngressCallNoStopTest(p) == IngressFirstRead(p, 0)

\* line 254, first operand: g_atomic_int_get(&stopping)
IngressCall(p) == IngressFirstRead(p, stopping)

\* line 254, second operand: g_atomic_int_get(&initialized); if clear, 256-257
IngressReadInit(p) ==
  /\ ~crashed
  /\ UNCHANGED <<mvars, popShut, cfg_events, latePosts>>
  /\ ipc[p] = "read_init"
  /\ IF initialized = 0 THEN
       /\ rel' = [rel EXCEPT ![iev[p]] = @ + 1]
       /\ path' = [path EXCEPT ![iev[p]] = "drop"]
       /\ ipc' = [ipc EXCEPT ![p] = "idle"]
       /\ iev' = [iev EXCEPT ![p] = 0]
     ELSE
       /\ path' = [path EXCEPT ![iev[p]] = "enqueue"]
       /\ ipc' = [ipc EXCEPT ![p] = "incref"]
       /\ UNCHANGED <<rel, iev>>
  /\ UNCHANGED <<globals, qvars, cvars, wvars, backendCopies, crashed>>
  /\ UNCHANGED <<iq, nevent, acq, exitDecrefs>>
  /\ UNCHANGED <<pushed, posted, res, win, sawStop, shut, early>>

\* line 267 and the load of `events` for line 268
IngressIncref(p) ==
  /\ ~crashed
  /\ UNCHANGED <<mvars, popShut, cfg_events, latePosts>>
  /\ ipc[p] = "incref"
  /\ acq' = [acq EXCEPT ![iev[p]] = @ + 1]
  /\ iq' = [iq EXCEPT ![p] = events]
  /\ ipc' = [ipc EXCEPT ![p] = "push"]
  /\ UNCHANGED <<globals, qvars, cvars, wvars, backendCopies, crashed>>
  /\ UNCHANGED <<iev, nevent, rel, exitDecrefs, histvars>>

\* line 268: g_async_queue_push(events, event), taken once the queue's lock
\* is `free`.  A NULL queue fails g_return_if_fail and nothing is pushed; a
\* freed queue is undefined behaviour, one outcome of which is that the
\* entry is written to freed memory and never seen again.
IngressPushWhen(p, free) ==
  /\ ~crashed
  /\ UNCHANGED <<mvars, popShut, cfg_events, latePosts>>
  /\ ipc[p] = "push"
  /\ free
  /\ IF iq[p] # NULL /\ qstate[iq[p]] = "live" THEN
       /\ queue' = Pushed(iq[p], iev[p])
       /\ pushed' = Append(pushed, iev[p])
     ELSE
       UNCHANGED <<queue, pushed>>
  /\ ipc' = [ipc EXCEPT ![p] = "idle"]
  /\ iev' = [iev EXCEPT ![p] = 0]
  /\ iq' = [iq EXCEPT ![p] = NULL]
  /\ UNCHANGED <<globals, qstate, exitPushes, nqueue, cvars, wvars>>
  /\ UNCHANGED <<backendCopies, crashed, nevent, refvars>>
  /\ UNCHANGED <<posted, res, path, win, sawStop, shut, early>>

\* a push that needs a lock the handler thread holds across its HTTP call
IngressPushLocked(p) ==
  IngressPushWhen(p, \A w \in ThreadIds : wpc[w] # "http")

\* line 268: the queue's lock is held by nobody for longer than a push or a
\* pop; the handler thread waits in pop with the lock released
IngressPush(p) == IngressPushWhen(p, TRUE)

\* line 268 on a freed queue, the other outcome: the process is killed
IngressPushCrash(p) ==
  /\ ~crashed
  /\ UNCHANGED <<mvars, popShut, cfg_events, latePosts>>
  /\ ipc[p] = "push"
  /\ iq[p] # NULL
  /\ qstate[iq[p]] = "freed"
  /\ crashed' = TRUE
  /\ UNCHANGED <<globals, qvars, cvars, ivars, wvars, backendCopies>>
  /\ UNCHANGED <<refvars, histvars>>

(* ---------------- handler thread: the loop (274-325) ------------------- *)
\* line 277, first operand: g_atomic_int_get(&initialized)
WCheckInit(w) ==
  /\ ~crashed
  /\ UNCHANGED <<mvars, popShut, cfg_events, latePosts>>
  /\ wpc[w] = "check_init"
  /\ wpc' = [wpc EXCEPT ![w] = IF initialized = 1 THEN "check_stop"
                                ELSE "exited"]
  /\ UNCHANGED <<globals, qvars, cvars, ivars, backendCopies, crashed>>
  /\ UNCHANGED <<wq, wev, nthread, refvars, histvars>>

\* a loop condition that tests `initialized` alone
WCheckStopSkipped(w) ==
  /\ ~crashed
  /\ UNCHANGED <<mvars, popShut, cfg_events, latePosts>>
  /\ wpc[w] = "check_stop"
  /\ wpc' = [wpc EXCEPT ![w] = "load"]
  /\ UNCHANGED <<globals, qvars, cvars, ivars, backendCopies, crashed>>
  /\ UNCHANGED <<wq, wev, nthread, refvars, histvars>>

\* line 277, second operand: !g_atomic_int_get(&stopping)
WCheckStop(w) ==
  /\ ~crashed
  /\ UNCHANGED <<mvars, popShut, cfg_events, latePosts>>
  /\ wpc[w] = "check_stop"
  /\ wpc' = [wpc EXCEPT ![w] = IF stopping = 0 THEN "load" ELSE "exited"]
  /\ UNCHANGED <<globals, qvars, cvars, ivars, backendCopies, crashed>>
  /\ UNCHANGED <<wq, wev, nthread, refvars, histvars>>

\* line 278: the load of `events` for g_async_queue_pop
WLoad(w) ==
  /\ ~crashed
  /\ UNCHANGED <<mvars, popShut, cfg_events, latePosts>>
  /\ wpc[w] = "load"
  /\ wq' = [wq EXCEPT ![w] = events]
  /\ wpc' = [wpc EXCEPT ![w] = "pop"]
  /\ UNCHANGED <<globals, qvars, cvars, ivars, backendCopies, crashed>>
  /\ UNCHANGED <<wev, nthread, refvars, histvars>>

\* a pop followed by a second test of the flags: with a flag saying shut
\* down the event is released and the thread leaves its loop
WPopRecheck(w) ==
  /\ ~crashed
  /\ UNCHANGED <<mvars, cfg_events, latePosts>>
  /\ wpc[w] = "pop"
  /\ IF wq[w] = NULL THEN
       /\ wpc' = [wpc EXCEPT ![w] = "check_init"]
       /\ UNCHANGED <<queue, wev, popShut, rel>>
     ELSE
       /\ qstate[wq[w]] = "live"
       /\ queue[wq[w]] # <<>>
       /\ queue' = [queue EXCEPT ![wq[w]] = Tail(@)]
       /\ IF Head(queue[wq[w]]) = EXIT THEN
            /\ wpc' = [wpc EXCEPT ![w] = "exited"]
            /\ UNCHANGED <<wev, popShut, rel>>
          ELSE IF initialized = 0 \/ stopping = 1 THEN
            /\ wpc' = [wpc EXCEPT ![w] = "exited"]
            /\ rel' = [rel EXCEPT ![Head(queue[wq[w]])] = @ + 1]
            /\ popShut' = popShut \cup {Head(queue[wq[w]])}
            /\ UNCHANGED wev
          ELSE
            /\ wpc' = [wpc EXCEPT ![w] = "handle"]
            /\ wev' = [wev EXCEPT ![w] = Head(queue[wq[w]])]
            /\ UNCHANGED <<popShut, rel>>
  /\ wq' = [wq EXCEPT ![w] = NULL]
  /\ UNCHANGED <<globals, qstate, exitPushes, nqueue, cvars, ivars>>
  /\ UNCHANGED <<backendCopies, crashed, nthread, acq, exitDecrefs, histvars>>

\* lines 278-282: g_async_queue_pop blocks until the queue has an entry;
\* on a NULL queue it returns NULL (continue); the sentinel ends the loop
WPop(w) ==
  /\ ~crashed
  /\ UNCHANGED <<mvars, cfg_events, latePosts>>
  /\ wpc[w] = "pop"
  /\ IF wq[w] = NULL THEN
       /\ wpc' = [wpc EXCEPT ![w] = "check_init"]
       /\ UNCHANGED <<queue, wev, popShut>>
     ELSE
       /\ qstate[wq[w]] = "live"
       /\ queue[wq[w]] # <<>>
       /\ queue' = [queue EXCEPT ![wq[w]] = Tail(@)]
       /\ IF Head(queue[wq[w]]) = EXIT THEN
            /\ wpc' = [wpc EXCEPT ![w] = "exited"]
            /\ UNCHANGED <<wev, popShut>>
          ELSE
            /\ wpc' = [wpc EXCEPT ![w] = "handle"]
            /\ wev' = [wev EXCEPT ![w] = Head(queue[wq[w]])]
            /\ popShut' = IF initialized = 0 \/ stopping = 1
                          THEN popShut \cup {Head(queue[wq[w]])}
                          ELSE popShut
  /\ wq' = [wq EXCEPT ![w] = NULL]
  /\ UNCHANGED <<globals, qstate, exitPushes, nqueue, cvars, ivars>>
  /\ UNCHANGED <<backendCopies, crashed, nthread, refvars, histvars>>

\* line 278 on a freed queue: undefined behaviour; the thread stays blocked
\* or the process is killed
WPopCrash(w) ==
  /\ ~crashed
  /\ UNCHANGED <<mvars, popShut, cfg_events, latePosts>>
  /\ wpc[w] = "pop"
  /\ wq[w] # NULL
  /\ qstate[wq[w]] = "freed"
  /\ crashed' = TRUE
  /\ UNCHANGED <<globals, qvars, cvars, ivars, wvars, backendCopies>>
  /\ UNCHANGED <<refvars, histvars>>

\* lines 285-299: curl_easy_init returns NULL: no request, goto done
WCurlFail(w) ==
  /\ ~crashed
  /\ UNCHANGED <<mvars, popShut, cfg_events, latePosts>>
  /\ wpc[w] = "handle"
  /\ res' = [res EXCEPT ![wev[w]] = "noinit"]
  /\ wpc' = [wpc EXCEPT ![w] = "done"]
  /\ UNCHANGED <<globals, qvars, cvars, ivars, backendCopies, crashed>>
  /\ UNCHANGED <<wq, wev, nthread, refvars>>
  /\ UNCHANGED <<pushed, posted, path, win, sawStop, shut, early>>

\* lines 285-310: the request is set up and curl_easy_perform is entered
WPerform(w) ==
  /\ ~crashed
  /\ UNCHANGED <<mvars, popShut, cfg_events>>
  /\ latePosts' = IF stopping = 1 THEN latePosts + 1 ELSE latePosts
  /\ wpc[w] = "handle"
  /\ posted' = Append(posted, wev[w])
  /\ res' = [res EXCEPT ![wev[w]] = "inflight"]
  /\ wpc' = [wpc EXCEPT ![w] = "http"]
  /\ UNCHANGED <<globals, qvars, cvars, ivars, backendCopies, crashed>>
  /\ UNCHANGED <<wq, wev, nthread, refvars>>
  /\ UNCHANGED <<pushed, path, win, sawStop, shut, early>>

\* line 301 with `backend` already freed: undefined behaviour; the request
\* goes on with whatever the memory holds (WPerform) or the process is killed
WBackendCrash(w) ==
  /\ ~crashed
  /\ UNCHANGED <<mvars, popShut, cfg_events, latePosts>>
  /\ wpc[w] = "handle"
  /\ backend = "freed"
  /\ crashed' = TRUE
  /\ UNCHANGED <<globals, qvars, cvars, ivars, wvars, backendCopies>>
  /\ UNCHANGED <<refvars, histvars>>

\* lines 310-315: curl_easy_perform returns CURLE_OK or an error
WHttpReturn(w, r) ==
  /\ ~crashed
  /\ UNCHANGED <<mvars, popShut, cfg_events, latePosts>>
  /\ wpc[w] = "http"
  /\ res' = [res EXCEPT ![wev[w]] = r]
  /\ wpc' = [wpc EXCEPT ![w] = "done"]
  /\ UNCHANGED <<globals, qvars, cvars, ivars, backendCopies, crashed>>
  /\ UNCHANGED <<wq, wev, nthread, refvars>>
  /\ UNCHANGED <<pushed, posted, path, win, sawStop, shut, early>>

\* a handler that sends the event again when the transfer failed
WDoneRetry(w) ==
  /\ ~crashed
  /\ UNCHANGED <<mvars, popShut, cfg_events, latePosts>>
  /\ wpc[w] = "done"
  /\ IF res[wev[w]] = "err" THEN
       /\ wpc' = [wpc EXCEPT ![w] = "handle"]
       /\ UNCHANGED <<rel, wev>>
     ELSE
       /\ rel' = [rel EXCEPT ![wev[w]] = @ + 1]
       /\ wev' = [wev EXCEPT ![w] = 0]
       /\ wpc' = [wpc EXCEPT ![w] = "check_init"]
  /\ UNCHANGED <<globals, qvars, cvars, ivars, backendCopies, crashed>>
  /\ UNCHANGED <<wq, nthread, acq, exitDecrefs, histvars>>

\* a handler that leaves its loop after a delivery that failed
WDoneStopOnError(w) ==
  /\ ~crashed
  /\ UNCHANGED <<mvars, popShut, cfg_events, latePosts>>
  /\ wpc[w] = "done"
  /\ rel' = [rel EXCEPT ![wev[w]] = @ + 1]
  /\ wev' = [wev EXCEPT ![w] = 0]
  /\ wpc' = [wpc EXCEPT ![w] = IF res[wev[w]] \in {"err", "noinit"}
                                THEN "exited" ELSE "check_init"]
  /\ UNCHANGED <<globals, qvars, cvars, ivars, backendCopies, crashed>>
  /\ UNCHANGED <<wq, nthread, acq, exitDecrefs, histvars>>

\* lines 316-322: cleanup, json_decref(event), back to the loop condition
WDone(w) ==
  /\ ~crashed
  /\ UNCHANGED <<mvars, popShut, cfg_events, latePosts>>
  /\ wpc[w] = "done"
  /\ rel' = [rel EXCEPT ![wev[w]] = @ + 1]
  /\ wev' = [wev EXCEPT ![w] = 0]
  /\ wpc' = [wpc EXCEPT ![w] = "check_init"]
  /\ UNCHANGED <<globals, qvars, cvars, ivars, backendCopies, crashed>>
  /\ UNCHANGED <<wq, nthread, acq, exitDecrefs, histvars>>

(* --------------------------- specification ----------------------------- *)
\* The host as section 6 of the specification describes it: init is called
\* on a plugin that is not initialised (once per load, again after destroy
\* or after a failed init)
HostInit(c) == initialized = 0 /\ InitCall(c)

\* A host that calls init on a plugin that is already initialised (init has
\* no check of `initialized`, lines 92-100)
HostReInit(c) == initialized = 1 /\ InitCall(c)

Control ==
  \/ \E c \in Configs : HostInit(c)
  \/ InitQueue
  \/ InitSet
  \/ InitThreadOk
  \/ InitThreadFail
  \/ InitRollback
  \/ DestroyCall
  \/ DestroyPush
  \/ DestroyJoin
  \/ DestroyUnref
  \/ DestroyNull
  \/ DestroyFree
  \/ DestroyClearInit
  \/ DestroyClearStop

IngressStep(p) ==
  \/ IngressReadInit(p)
  \/ IngressIncref(p)
  \/ IngressPush(p)

Ingress(p) ==
  \/ IngressCall(p)
  \/ IngressStep(p)
  \/ IngressPushCrash(p)

Worker(w) ==
  \/ WCheckInit(w)
  \/ WCheckStop(w)
  \/ WLoad(w)
  \/ WPop(w)
  \/ WCurlFail(w)
  \/ WPerform(w)
  \/ \E r \in {"ok", "err"} : WHttpReturn(w, r)
  \/ WDone(w)

\* Steps only a handler thread that destroy did not join can take: they need
\* a second init on an initialised plugin
Orphan(w) ==
  \/ WPopCrash(w)
  \/ WBackendCrash(w)

Next ==
  \/ Control
  \/ \E p \in Producers : Ingress(p)
  \/ \E w \in ThreadIds : Worker(w)

\* The plugin under a host that follows the protocol
Spec == Init /\ [][Next]_vars

NextAny ==
  \/ Next
  \/ \E c \in Configs : HostReInit(c)
  \/ \E w \in ThreadIds : Orphan(w)

\* The plugin under any sequence of init and destroy calls
SpecAny == Init /\ [][NextAny]_vars

\* Scheduling: every thread that can take a step of a call in progress
\* eventually takes it, and every HTTP call returns.  The host is not
\* obliged to make calls, and undefined behaviour is not obliged to kill
\* the process.
Fairness ==
  /\ WF_vars(InitQueue \/ InitSet \/ InitThreadOk \/ InitThreadFail
             \/ InitRollback)
  /\ WF_vars(DestroyPush \/ DestroyJoin \/ DestroyUnref \/ DestroyNull
             \/ DestroyFree \/ DestroyClearInit \/ DestroyClearStop)
  /\ \A p \in Producers : WF_vars(IngressStep(p))
  /\ \A w \in ThreadIds : WF_vars(Worker(w))

SpecFair == Init /\ [][Next]_vars /\ Fairness


(* --------------------- the events item, on its own -------------------- *)
MaskInit ==
  /\ ProgramInit
  /\ m_ts \in TokenLists \cup {<<>>, <<W_all>>, <<W_none>>}
  /\ m_pc = "start"

\* lines 124-168 on the mask as the plugin is loaded with (line 61)
MaskParse ==
  /\ m_pc = "start"
  /\ events_mask' = MaskAfter(events_mask, EventsValueOf(m_ts))
  /\ m_pc' = "done"
  /\ UNCHANGED <<initialized, stopping, handler_thread, events, backend>>
  /\ UNCHANGED <<qvars, cvars, ivars, wvars, refvars, histvars>>
  /\ UNCHANGED <<crashed, backendCopies, m_ts, popShut, cfg_events, latePosts>>

MaskNext == MaskParse

MaskSpec == MaskInit /\ [][MaskNext]_vars


(* ------------------------------- claims -------------------------------- *)
ProducersIdle == \A p \in Producers : ipc[p] = "idle"
WorkersGone   == \A w \in ThreadIds : wpc[w] \in {"unborn", "exited"}
DestroyReturned == cret = "destroy_done" /\ cpc = "idle"

\* C1: once destroy has returned and no incoming_event call is in progress,
\* every event has seen as many json_incref calls as json_decref calls,
\* whichever path each incoming_event call took.
C1_NoReferenceLeaks ==
  (DestroyReturned /\ ProducersIdle /\ ~crashed)
    => \A e \in Events : acq[e] = rel[e]

\* C2: in one init / destroy cycle, once destroy has returned and every
\* thread is at rest, each reference incoming_event acquired for the queue
\* has been released exactly once, and the sentinel never.
C2_EnqueuedReleasedOnce ==
  (DestroyReturned /\ ProducersIdle /\ WorkersGone /\ ~crashed
     /\ nqueue = 1 /\ nthread = 1)
    => /\ \A e \in Events : acq[e] = 1 => rel[e] = 1
       /\ exitDecrefs = 0


Dropped(e) ==
  /\ path[e] = "drop"
  /\ acq[e] = 0
  /\ rel[e] = 1
  /\ e \notin Range(pushed)
  /\ e \notin Range(posted)

\* C3 as stated: an incoming_event call that starts after destroy has set
\* `stopping` and before a later init has set `initialized` (and so before
\* that init has succeeded) never takes the enqueue path: it releases its
\* reference once, pushes nothing, and its event is never POSTed.
C3_DropInWindow ==
  \A e \in Events :
    win[e] => /\ path[e] # "enqueue"
              /\ path[e] = "drop" => Dropped(e)

\* C3 amended: an incoming_event call that reads `stopping` as set, or that
\* reads `initialized` as clear, releases its reference exactly once,
\* acquires none, pushes nothing, and its event is never POSTed.
C3_DropOnShutdown ==
  \A e \in Events : (sawStop[e] \/ path[e] = "drop") => Dropped(e)

C3_Witness ==
  \E e \in Events : sawStop[e] /\ Dropped(e) /\ cpc = "d_join"

\* C4: whatever the handler threads are doing, an incoming_event call in
\* progress can take its next step (while the process is alive).
C4_IngressNeverWaits ==
  \A p \in Producers :
    (ipc[p] # "idle" /\ ~crashed) => ENABLED IngressStep(p)

C4_Witness ==
  \E p \in Producers : \E w \in ThreadIds :
    ipc[p] = "push" /\ wpc[w] = "http" /\ ~crashed

Pos(s, x) == CHOOSE i \in DOMAIN s : s[i] = x

\* C6: the POSTed events are a subsequence, in order, of the events in the
\* order they were pushed (so two events of one producer keep their order).
C6_PostOrder ==
  /\ \A i \in DOMAIN posted : posted[i] \in Range(pushed)
  /\ \A i, j \in DOMAIN posted :
       i < j => Pos(pushed, posted[i]) < Pos(pushed, posted[j])

C6_Witness ==
  /\ pushed = <<2, 1>>
  /\ posted = <<2, 1>>

\* C7: no queue ever holds the sentinel twice, and no queue (one per init /
\* destroy cycle) has the sentinel pushed onto it twice.
C7_OneSentinel ==
  \A q \in QueueIds : Count(queue[q], EXIT) <= 1 /\ exitPushes[q] <= 1

C7_Witness ==
  /\ cret = "destroy_noop"
  /\ exitPushes[1] = 1
  /\ exitPushes[2] = 1

flags == <<initialized, stopping>>

\* C9 as stated: the pair (initialized, stopping) changes only by
\* (0,0)->(1,0), (1,0)->(1,1) and (1,1)->(0,0).
C9_ThreeTransitions ==
  [][flags' # flags =>
       <<flags, flags'>> \in {<< <<0, 0>>, <<1, 0>> >>,
                              << <<1, 0>>, <<1, 1>> >>,
                              << <<1, 1>>, <<0, 0>> >>}]_vars

\* C9 amended: the pair changes only by (0,0)->(1,0) at line 189,
\* (1,0)->(0,0) when the handler thread could not be started (line 195),
\* (1,0)->(1,1) when destroy begins, and (1,1)->(0,1)->(0,0) when destroy
\* ends (lines 219-220).
C9_FlagTransitions ==
  [][flags' # flags =>
       \/ flags = <<0, 0>> /\ flags' = <<1, 0>> /\ cpc = "init_set"
       \/ flags = <<1, 0>> /\ flags' = <<0, 0>> /\ cpc = "init_rollback"
       \/ flags = <<1, 0>> /\ flags' = <<1, 1>> /\ cpc = "idle"
       \/ flags = <<1, 1>> /\ flags' = <<0, 1>> /\ cpc = "d_init"
       \/ flags = <<0, 1>> /\ flags' = <<0, 0>> /\ cpc = "d_stop"]_vars

C9_Witness == flags = <<0, 1>> /\ cpc = "d_stop"

HasHttpPrefix(v) ==
  /\ v # NoItem
  /\ Len(v) >= 4
  /\ <<v[1], v[2], v[3], v[4]>> = <<"h", "t", "t", "p">>

InitFailures == {"init_fail_stopping", "init_fail_path", "init_fail_noconfig",
                 "init_fail_disabled", "init_fail_backend"}

\* C10: an init call whose backend is missing, empty or does not start with
\* "http" returns failure at once and leaves `initialized`, the queues, the
\* threads and `backend` as they were; an init call gets past the check
\* only with a backend that starts with "http" and a truthy `enabled`.
C10_BackendValidation ==
  [][\A c \in Configs :
       InitCall(c) =>
         /\ ~HasHttpPrefix(c.backend) =>
              /\ cret' \in InitFailures
              /\ cpc' = "idle"
              /\ UNCHANGED <<initialized, events, backend, handler_thread>>
              /\ UNCHANGED <<qstate, nqueue, wpc, nthread>>
         /\ cpc' = "init_queue" =>
              /\ HasHttpPrefix(c.backend)
              /\ c.enabled \in {"yes", "true", "1"}]_vars

C10_Witness ==
  /\ cret = "init_fail_backend"
  /\ initialized = 0
  /\ nqueue = 0
  /\ nthread = 0
  /\ handler_thread = NULL


InDestroy == cpc \in {"d_push", "d_join", "d_unref", "d_null", "d_free",
                      "d_init", "d_stop"}

DestroyReturnsOrKilled == InDestroy ~> (DestroyReturned \/ crashed)


LiveQueues  == {q \in QueueIds : qstate[q] = "live"}
LiveWorkers == {w \in ThreadIds : wpc[w] \notin {"unborn", "exited"}}

\* every init that created a queue also started its handler thread
NoFailedStart ==
  /\ cpc # "init_rollback"
  /\ nqueue = nthread + (IF cpc \in {"init_set", "init_thread"} THEN 1 ELSE 0)

ValidConfig(c) ==
  /\ c.path
  /\ c.parsed
  /\ EnabledOk(c.enabled)
  /\ BackendOk(c.backend)

\* C11: over any number of init / ingress / destroy cycles whose inits
\* succeed, there is never more than one live queue, one handler thread and
\* one backend copy; when destroy has returned the flags are (0,0), no
\* handler thread runs, the queue is destroyed and the backend freed; and an
\* init with a valid configuration called then gets past every check.
C11_CleanCycles ==
  /\ [](NoFailedStart =>
          /\ Cardinality(LiveQueues) <= 1
          /\ Cardinality(LiveWorkers) <= 1
          /\ backendCopies <= 1
          /\ DestroyReturned =>
               /\ flags = <<0, 0>>
               /\ LiveWorkers = {}
               /\ handler_thread = NULL
               /\ LiveQueues = {}
               /\ events = NULL
               /\ backendCopies = 0)
  /\ [][\A c \in Configs :
          (DestroyReturned /\ NoFailedStart /\ ValidConfig(c) /\ InitCall(c))
            => cpc' = "init_queue"]_vars

C11_Witness ==
  /\ DestroyReturned
  /\ NoFailedStart
  /\ nqueue = 2
  /\ nthread = 2
  /\ Len(posted) = 2


\* the table of the subscription mask
KindTable == {<<W_sessions, "session">>, <<W_handles, "handle">>,
              <<W_jsep, "jsep">>, <<W_webrtc, "webrtc">>,
              <<W_media, "media">>, <<W_plugins, "plugin">>,
              <<W_transports, "transport">>}

Lower(t) == [i \in DOMAIN t |-> tolower(t[i])]

\* t without the whitespace on both of its sides
Trim(t) ==
  LET ns == {i \in DOMAIN t : t[i] \notin {" ", "\t", "\n"}} IN
  IF ns = {} THEN <<>>
  ELSE SubSeq(t, CHOOSE i \in ns : \A j \in ns : i <= j,
                 CHOOSE i \in ns : \A j \in ns : j <= i)

TrimmedKinds(ts) ==
  {q[2] : q \in {r \in KindTable :
                   \E i \in DOMAIN ts : Lower(Trim(ts[i])) = r[1]}}

\* C12: for a comma-separated value parsed into the empty mask, the mask is
\* the set of kinds of the tokens, each trimmed of whitespace on both sides
\* and looked up ignoring case; empty and unknown tokens add nothing.
C12_MaskTrimmed ==
  (m_pc = "done" /\ IsListValue(m_ts)) => events_mask = TrimmedKinds(m_ts)

\* the names of the table a list holds, as the parser reads its tokens:
\* whitespace before the token skipped, case ignored
RecognisedTokens(ts) ==
  {q[1] : q \in {r \in KindTable :
                   \E i \in DOMAIN ts : Lower(SkipSpace(ts[i])) = r[1]}}

\* C13: two lists with the same set of recognised tokens give the same mask,
\* whatever the order of the tokens, their repetitions and the unknown
\* tokens among them.
C13_MaskSetOnly ==
  (m_pc = "done" /\ IsListValue(m_ts)) =>
    \A ts \in TokenLists :
      (IsListValue(ts) /\ RecognisedTokens(ts) = RecognisedTokens(m_ts))
        => MaskAfter({}, EventsValueOf(ts)) = events_mask

C13_Witness ==
  /\ m_pc = "done"
  /\ m_ts = <<W_sessions, W_sessions, W_handles>>
  /\ events_mask = {"session", "handle"}
  /\ MaskAfter({}, EventsValueOf(<<W_handles, W_sessions>>)) = events_mask
  /\ MaskAfter({}, EventsValueOf(<<W_handles, SP \o W_foo, W_sessions>>))
       = events_mask


\* the handler thread w leaves its loop in this step
WExits(w) == wpc[w] # "exited" /\ wpc'[w] = "exited"

\* C14: a delivery that failed (no curl handle, or a transfer error) is not
\* tried again; the handler thread releases the event exactly once and goes
\* back to its loop; it leaves the loop only on reading a shutdown flag at
\* the loop condition or on popping the sentinel.
C14_FailureDoesNotStop ==
  /\ [](\A e \in Events :
          /\ Count(posted, e) <= 1
          /\ res[e] = "noinit" => Count(posted, e) = 0)
  /\ [][\A w \in ThreadIds :
          /\ WDone(w) => /\ rel'[wev[w]] = 1
                         /\ wpc'[w] = "check_init"
          /\ WExits(w) =>
               \/ wpc[w] = "check_init" /\ initialized = 0
               \/ wpc[w] = "check_stop" /\ stopping = 1
               \/ /\ wpc[w] = "pop"
                  /\ wq[w] # NULL
                  /\ queue[wq[w]] # <<>>
                  /\ Head(queue[wq[w]]) = EXIT]_vars

C14_Witness ==
  /\ pushed = <<1, 2>>
  /\ posted = <<2>>
  /\ res[1] = "noinit" /\ rel[1] = 1
  /\ res[2] = "err" /\ rel[2] = 1
  /\ \E w \in ThreadIds : wpc[w] = "pop"


\* C15 as stated: an event popped while `initialized` is clear or `stopping`
\* is set is released without being serialised or POSTed.
C15_RecheckAfterPop ==
  \A e \in popShut : res[e] = "none" /\ e \notin Range(posted)

\* C15 amended: the flags are not read again after the pop.  Whatever they
\* say, a popped event goes on to be serialised and sent; the thread never
\* leaves its loop while it holds an event, only at the loop condition or
\* on the sentinel.
C15_NoRecheckAfterPop ==
  /\ [](\A w \in ThreadIds :
          (wpc[w] = "handle" /\ ~crashed) => ENABLED WPerform(w))
  /\ [][\A w \in ThreadIds :
          /\ (wpc[w] = "pop" /\ wq[w] # NULL /\ wpc'[w] # "pop"
                /\ Head(queue[wq[w]]) # EXIT)
               => wpc'[w] = "handle" /\ wev'[w] = Head(queue[wq[w]])
          /\ WExits(w) => wpc[w] \in {"check_init", "check_stop", "pop"}
                          /\ wev[w] = 0]_vars

C15_Witness ==
  \E e \in popShut :
    /\ e \in Range(posted)
    /\ res[e] = "ok"
    /\ rel[e] = 1
    /\ stopping = 1
    /\ WorkersGone


\* C16: whatever init and destroy calls the control thread makes, one after
\* another, there is never more than one handler thread and never more than
\* one live queue.
C16_OneWorkerOneQueue ==
  /\ Cardinality(LiveWorkers) <= 1
  /\ Cardinality(LiveQueues) <= 1


\* C17: after a successful init the mask is what that init's configuration
\* gives from the default mask, whatever calls came before; with no events
\* item, or an empty one, it is empty.
C17_MaskFromConfigAlone ==
  cret = "init_ok" => events_mask = MaskAfter({}, cfg_events)


\* C18: a destroy call made while `initialized` is clear returns at once and
\* changes nothing: no flag, no queue (so no sentinel), no thread (so no
\* join), no release of the queue or of the backend.
C18_DestroyIdempotent ==
  [][(DestroyCall /\ initialized = 0) =>
       /\ cpc' = "idle"
       /\ cret' = "destroy_noop"
       /\ UNCHANGED <<globals, qvars, wvars, refvars, backendCopies>>
       /\ UNCHANGED <<ivars, crashed, pushed, posted>>]_vars

C18_Witness ==
  /\ cret = "destroy_noop"
  /\ nqueue = 1
  /\ qstate[1] = "freed"
  /\ backend = "freed"
  /\ backendCopies = 0
  /\ flags = <<0, 0>>


\* the events that wait in some queue
Queued == UNION {Range(queue[q]) : q \in QueueIds} \ {EXIT}

\* C19: from the moment destroy sets `stopping`, the handler thread enters
\* curl_easy_perform at most once more before it exits; the events that are
\* still in the queue then have never been POSTed and are released by the
\* destruction of the queue, so that they never will be.
C19_OneLatePost ==
  /\ [](latePosts <= 1)
  /\ [](\A e \in Queued : e \notin Range(posted) /\ res[e] = "none")
  /\ [][DestroyUnref =>
          \A e \in Queued :
            e \in Range(queue[events]) =>
              /\ rel'[e] = rel[e] + 1
              /\ e \notin Range(posted')
              /\ \A q \in QueueIds : e \notin Range(queue'[q])]_vars

C19_Witness ==
  /\ DestroyReturned
  /\ latePosts = 1
  /\ \E e \in popShut : e \in Range(posted)
  /\ \E e \in early : res[e] = "none" /\ rel[e] = 1 /\ e \notin Range(posted)


\* C20: an incoming_event call about to push holds a pointer to a queue
\* that is live, and a handler thread about to pop likewise: nobody uses
\* the queue once destroy has released it.
C20_NoUseAfterRelease ==
  /\ \A p \in Producers :
       ipc[p] = "push" => iq[p] # NULL /\ qstate[iq[p]] = "live"
  /\ \A w \in ThreadIds :
       (wpc[w] = "pop" /\ wq[w] # NULL) => qstate[wq[w]] = "live"

====
